---- MODULE Spec2Model ----
(***************************************************************************)
(* Generational index allocator and generation-checked arena (src/lib.rs). *)
(*                                                                         *)
(* One Allocator (entries, free) and one Arena (values) are modelled,      *)
(* together with the history a client can observe: the handles the         *)
(* Allocator has returned and the last call with its argument and result.  *)
(* Vec<T> is a sequence (Rust position i is TLA+ position i + 1) and        *)
(* Option<T> is a sequence of length at most one.                           *)
(***************************************************************************)
EXTENDS Naturals, Sequences, FiniteSets

VARIABLES entries, free, values, issued, assigned, stored, held, last

vars == <<entries, free, values, issued, assigned, stored, held, last>>

(***************************************************************************)
(* Bounds of the model.                                                    *)
(***************************************************************************)
\* Largest number of AllocatorEntry the Allocator grows to.
MaxSlots == 2
\* Largest generation a slot reaches (usize in the source; the counter is
\* capped in DoAllocate's guard, far below the width where `+= 1` overflows).
MaxGen == 2

\* The element type E of Arena<E>: the two values tests::array_test stores.
Elems == {0, 12}

(***************************************************************************)
(* Option<T> and Vec<T>::get.                                              *)
(***************************************************************************)
None == << >>

Some(x) == <<x>>

IsSome(o) == Len(o) = 1

Unwrap(o) == o[1]

VecGet(v, i) == IF i < Len(v) THEN Some(v[i + 1]) ELSE None

(***************************************************************************)
(* Index                                                                   *)
(***************************************************************************)
IndexNew(value, generation) == [value |-> value, generation |-> generation]

\* Index values a caller can hold: Index is Copy, so stale handles stay
\* usable, and any (value, generation) pair is issued by some Allocator
\* instance (allocate value + 1 times, then recycle the slot generation
\* times), so handles foreign to the modelled Allocator range over all pairs.
Slots == 0..(MaxSlots - 1)

Indexes == [value : Slots, generation : 0..MaxGen]

(***************************************************************************)
(* Allocator                                                               *)
(***************************************************************************)
AllocatorEntryNew == [is_live |-> TRUE, generation |-> 0]

AllocatorNew == [entries |-> << >>, free |-> << >>]

\* A variant of is_live that also compares the handle's generation.
IsLive_GenChecked(a, index) ==
    LET e == VecGet(a.entries, index.value)
    IN  IF IsSome(e)
        THEN Unwrap(e).is_live /\ Unwrap(e).generation = index.generation
        ELSE FALSE

\* Allocator::is_live: entries.get(index.value).map(|v| v.is_live)
\*                            .unwrap_or_default()
IsLive(a, index) ==
    LET e == VecGet(a.entries, index.value)
    IN  IF IsSome(e) THEN Unwrap(e).is_live ELSE FALSE

\* A variant of allocate that recycles a slot without `generation += 1`.
Allocate_NoBump(a) ==
    IF Len(a.free) > 0
    THEN LET i   == a.free[Len(a.free)]
             gen == a.entries[i + 1].generation
         IN  [a   |-> [entries |-> [a.entries EXCEPT ![i + 1] =
                                        [is_live |-> TRUE, generation |-> gen]],
                       free    |-> SubSeq(a.free, 1, Len(a.free) - 1)],
              ret |-> IndexNew(i, gen)]
    ELSE LET index == Len(a.entries)
             pushed == Append(a.entries, [is_live |-> TRUE, generation |-> 0])
         IN  [a   |-> [entries |-> pushed, free |-> a.free],
              ret |-> IndexNew(index, pushed[index + 1].generation)]

\* A variant of allocate that recycles a slot with a fresh AllocatorEntry.
Allocate_ResetGeneration(a) ==
    IF Len(a.free) > 0
    THEN LET i == a.free[Len(a.free)]
         IN  [a   |-> [entries |-> [a.entries EXCEPT ![i + 1] =
                                        [is_live |-> TRUE, generation |-> 0]],
                       free    |-> SubSeq(a.free, 1, Len(a.free) - 1)],
              ret |-> IndexNew(i, 0)]
    ELSE LET index == Len(a.entries)
             pushed == Append(a.entries, [is_live |-> TRUE, generation |-> 0])
         IN  [a   |-> [entries |-> pushed, free |-> a.free],
              ret |-> IndexNew(index, pushed[index + 1].generation)]

\* A variant of allocate that takes the oldest free slot: free.remove(0).
Allocate_FromFront(a) ==
    IF Len(a.free) > 0
    THEN LET i   == a.free[1]
             gen == a.entries[i + 1].generation + 1
         IN  [a   |-> [entries |-> [a.entries EXCEPT ![i + 1] =
                                        [is_live |-> TRUE, generation |-> gen]],
                       free    |-> SubSeq(a.free, 2, Len(a.free))],
              ret |-> IndexNew(i, gen)]
    ELSE LET index == Len(a.entries)
             pushed == Append(a.entries, [is_live |-> TRUE, generation |-> 0])
         IN  [a   |-> [entries |-> pushed, free |-> a.free],
              ret |-> IndexNew(index, pushed[index + 1].generation)]

\* A variant of allocate that reads free.last() and leaves it on the list.
Allocate_NoPop(a) ==
    IF Len(a.free) > 0
    THEN LET i   == a.free[Len(a.free)]
             gen == a.entries[i + 1].generation + 1
         IN  [a   |-> [entries |-> [a.entries EXCEPT ![i + 1] =
                                        [is_live |-> TRUE, generation |-> gen]],
                       free    |-> a.free],
              ret |-> IndexNew(i, gen)]
    ELSE LET index == Len(a.entries)
             pushed == Append(a.entries, [is_live |-> TRUE, generation |-> 0])
         IN  [a   |-> [entries |-> pushed, free |-> a.free],
              ret |-> IndexNew(index, pushed[index + 1].generation)]

\* A variant of allocate that recycles a slot without `is_live = true`.
Allocate_NoMarkLive(a) ==
    IF Len(a.free) > 0
    THEN LET i   == a.free[Len(a.free)]
             gen == a.entries[i + 1].generation + 1
         IN  [a   |-> [entries |-> [a.entries EXCEPT ![i + 1].generation = gen],
                       free    |-> SubSeq(a.free, 1, Len(a.free) - 1)],
              ret |-> IndexNew(i, gen)]
    ELSE LET index == Len(a.entries)
             pushed == Append(a.entries, [is_live |-> TRUE, generation |-> 0])
         IN  [a   |-> [entries |-> pushed, free |-> a.free],
              ret |-> IndexNew(index, pushed[index + 1].generation)]

\* Allocator::allocate: the allocator after the call and the handle returned.
Allocate(a) ==
    IF Len(a.free) > 0
    THEN LET i   == a.free[Len(a.free)]
             gen == a.entries[i + 1].generation + 1
         IN  [a   |-> [entries |-> [a.entries EXCEPT ![i + 1] =
                                        [is_live |-> TRUE, generation |-> gen]],
                       free    |-> SubSeq(a.free, 1, Len(a.free) - 1)],
              ret |-> IndexNew(i, gen)]
    ELSE LET index == Len(a.entries)
             pushed == Append(a.entries, AllocatorEntryNew)
         IN  [a   |-> [entries |-> pushed, free |-> a.free],
              ret |-> IndexNew(index, pushed[index + 1].generation)]

\* A variant of deallocate without the `if self.is_live(index)` test.
Deallocate_NoCheck(a, index) ==
    [entries |-> [i \in 1..Len(a.entries) |->
                     IF i = index.value + 1
                     THEN [a.entries[i] EXCEPT !.is_live = FALSE]
                     ELSE a.entries[i]],
     free    |-> Append(a.free, index.value)]

\* A variant of deallocate that frees only the handle of the slot's current
\* generation.
Deallocate_GenChecked(a, index) ==
    IF /\ index.value < Len(a.entries)
       /\ a.entries[index.value + 1].is_live
       /\ a.entries[index.value + 1].generation = index.generation
    THEN [entries |-> [a.entries EXCEPT ![index.value + 1].is_live = FALSE],
          free    |-> Append(a.free, index.value)]
    ELSE a

\* A variant of deallocate that advances the generation when it frees.
Deallocate_Bump(a, index) ==
    IF index.value < Len(a.entries) /\ a.entries[index.value + 1].is_live
    THEN [entries |-> [a.entries EXCEPT ![index.value + 1] =
                          [is_live |-> FALSE,
                           generation |-> a.entries[index.value + 1].generation + 1]],
          free    |-> Append(a.free, index.value)]
    ELSE a

\* Allocator::deallocate: the allocator after the call.
Deallocate(a, index) ==
    IF IsLive(a, index)
    THEN [entries |-> [a.entries EXCEPT ![index.value + 1].is_live = FALSE],
          free    |-> Append(a.free, index.value)]
    ELSE a

(***************************************************************************)
(* Arena                                                                   *)
(***************************************************************************)
\* A variant of ArrayEntry::value without the generation test.
ArrayEntryValue_NoCheck(e, index) == Some(e.value)

\* ArrayEntry::value
ArrayEntryValue(e, index) ==
    IF e.generation = index.generation THEN Some(e.value) ELSE None

\* ArrayEntry::value_mut
ArrayEntryValueMut(e, index) ==
    IF e.generation = index.generation THEN Some(e.value) ELSE None

ArenaNew == << >>

ArenaLen(vals) == Len(vals)

ArenaIsEmpty(vals) == ArenaLen(vals) = 0

\* The loop of Arena::set: push None while len() <= index.value.
RECURSIVE Grow(_, _)
Grow(vals, index) ==
    IF ArenaLen(vals) <= index.value
    THEN Grow(Append(vals, None), index)
    ELSE vals

\* A variant of Arena::set that keeps the generation tag of an occupied slot.
ArenaSet_KeepGeneration(vals, index, elem) ==
    LET grown == Grow(vals, index)
        old   == grown[index.value + 1]
    IN  [grown EXCEPT ![index.value + 1] =
            Some([value |-> elem,
                  generation |-> IF IsSome(old) THEN Unwrap(old).generation
                                                ELSE index.generation])]

\* A variant of Arena::set that leaves an entry of a newer generation alone.
ArenaSet_IfNewer(vals, index, elem) ==
    LET grown == Grow(vals, index)
        old   == grown[index.value + 1]
    IN  IF IsSome(old) /\ Unwrap(old).generation > index.generation
        THEN grown
        ELSE [grown EXCEPT ![index.value + 1] =
                 Some([value |-> elem, generation |-> index.generation])]

\* A variant of Arena::set that sizes the storage with
\* values.resize_with(index.value + 1, || None).
ArenaSet_Resize(vals, index, elem) ==
    [SubSeq(Grow(vals, index), 1, index.value + 1)
        EXCEPT ![index.value + 1] =
            Some([value |-> elem, generation |-> index.generation])]

\* A variant of Arena::set that stores only into an empty slot.
ArenaSet_IfAbsent(vals, index, elem) ==
    LET grown == Grow(vals, index)
    IN  IF IsSome(grown[index.value + 1])
        THEN grown
        ELSE [grown EXCEPT ![index.value + 1] =
                 Some([value |-> elem, generation |-> index.generation])]

\* Arena::set
ArenaSet(vals, index, elem) ==
    [Grow(vals, index) EXCEPT ![index.value + 1] =
        Some([value |-> elem, generation |-> index.generation])]

\* A variant of Arena::get that returns whatever the slot holds.
ArenaGet_AnyGeneration(vals, index) ==
    LET slot == VecGet(vals, index.value)
    IN  IF IsSome(slot) /\ IsSome(Unwrap(slot))
        THEN Some(Unwrap(Unwrap(slot)).value)
        ELSE None

\* Arena::get: values.get(index.value).and_then(|v| v.as_ref())
\*                   .and_then(|v| v.value(index))
ArenaGet(vals, index) ==
    LET slot == VecGet(vals, index.value)
    IN  IF IsSome(slot) /\ IsSome(Unwrap(slot))
        THEN ArrayEntryValue(Unwrap(Unwrap(slot)), index)
        ELSE None

\* Arena::get_mut
ArenaGetMut(vals, index) ==
    LET slot == VecGet(vals, index.value)
    IN  IF IsSome(slot) /\ IsSome(Unwrap(slot))
        THEN ArrayEntryValueMut(Unwrap(Unwrap(slot)), index)
        ELSE None

\* Option::unwrap: the value, or a panic on None.
OptionUnwrap(o) == [panicked |-> ~IsSome(o), value |-> o]

\* A variant of Index::index that reads the slot without the generation test.
ArenaIndex_AnyGeneration(vals, index) ==
    OptionUnwrap(ArenaGet_AnyGeneration(vals, index))

\* impl Index<Index> for Arena: self.get(index).unwrap()
ArenaIndex(vals, index) == OptionUnwrap(ArenaGet(vals, index))

\* impl IndexMut<Index> for Arena: self.get_mut(index).unwrap()
ArenaIndexMut(vals, index) == OptionUnwrap(ArenaGetMut(vals, index))

(***************************************************************************)
(* State machine                                                           *)
(***************************************************************************)
\* entries, free : the Allocator.  values : the Arena.
\* issued   : the handles allocate has returned so far.
\* assigned : the issued handles that set has been called with since they
\*            were issued.
\* stored   : per slot number, the arguments of the most recent set there.
\* held     : in SpecDisciplined, the handles allocate returned that the
\*            client has not passed to deallocate yet; empty elsewhere.
\* last     : the most recent call: its name, its Index argument, for
\*            deallocate the value of its test `self.is_live(index)`, and
\*            its result.
allocator == [entries |-> entries, free |-> free]

NoIndex == IndexNew(0, 0)

Call(op, index, live, ret) ==
    [op |-> op, index |-> index, live |-> live, ret |-> ret]

Init ==
    /\ entries = AllocatorNew.entries
    /\ free = AllocatorNew.free
    /\ values = ArenaNew
    /\ issued = {}
    /\ assigned = {}
    /\ stored = [s \in Slots |-> None]
    /\ held = {}
    /\ last = Call("new", NoIndex, FALSE, None)

\* let h = allocator.allocate();
DoAllocate ==
    LET r == Allocate(allocator)
    IN  /\ Len(r.a.entries) <= MaxSlots
        /\ r.ret.generation <= MaxGen
        /\ entries' = r.a.entries
        /\ free' = r.a.free
        /\ issued' = issued \cup {r.ret}
        /\ last' = Call("allocate", NoIndex, FALSE, r.ret)
        /\ UNCHANGED <<values, assigned, stored>>

\* allocator.deallocate(index);
DoDeallocate ==
    \E index \in Indexes :
        LET a == Deallocate(allocator, index)
        IN  /\ entries' = a.entries
            /\ free' = a.free
            /\ last' = Call("deallocate", index, IsLive(allocator, index), None)
            /\ UNCHANGED <<values, issued, assigned, stored>>

\* allocator.is_live(index)
DoIsLive ==
    \E index \in Indexes :
        /\ last' = Call("is_live", index, FALSE, IsLive(allocator, index))
        /\ UNCHANGED <<entries, free, values, issued, assigned, stored>>

\* arena.set(index, elem);
DoSet ==
    \E index \in Indexes, elem \in Elems :
        /\ values' = ArenaSet(values, index, elem)
        /\ assigned' = IF index \in issued THEN assigned \cup {index}
                                           ELSE assigned
        /\ stored' = [stored EXCEPT ![index.value] =
                          Some([index |-> index, elem |-> elem])]
        /\ last' = Call("set", index, FALSE, None)
        /\ UNCHANGED <<entries, free, issued>>

\* arena.get(index)
DoGet ==
    \E index \in Indexes :
        /\ last' = Call("get", index, FALSE, ArenaGet(values, index))
        /\ UNCHANGED <<entries, free, values, issued, assigned, stored>>

\* arena.get_mut(index)
DoGetMut ==
    \E index \in Indexes :
        /\ last' = Call("get_mut", index, FALSE,
                     ArenaGetMut(values, index))
        /\ UNCHANGED <<entries, free, values, issued, assigned, stored>>

\* arena.len()
DoLen ==
    /\ last' = Call("len", NoIndex, FALSE, ArenaLen(values))
    /\ UNCHANGED <<entries, free, values, issued, assigned, stored>>

\* arena.is_empty()
DoIsEmpty ==
    /\ last' = Call("is_empty", NoIndex, FALSE, ArenaIsEmpty(values))
    /\ UNCHANGED <<entries, free, values, issued, assigned, stored>>

\* arena[index]; a panic unwinds out of the call and leaves the Arena as
\* it was.
DoIndex ==
    \E index \in Indexes :
        /\ last' = Call("index", index, FALSE, ArenaIndex(values, index))
        /\ UNCHANGED <<entries, free, values, issued, assigned, stored>>

\* &mut arena[index]
DoIndexMut ==
    \E index \in Indexes :
        /\ last' = Call("index_mut", index, FALSE,
                     ArenaIndexMut(values, index))
        /\ UNCHANGED <<entries, free, values, issued, assigned, stored>>

\* The client's bookkeeping is left out.
Untracked == UNCHANGED held

NextAllocator ==
    \/ DoAllocate /\ Untracked
    \/ DoDeallocate /\ Untracked
    \/ DoIsLive /\ Untracked

NextArena ==
    \/ DoSet /\ Untracked
    \/ DoGet /\ Untracked
    \/ DoGetMut /\ Untracked
    \/ DoLen /\ Untracked
    \/ DoIsEmpty /\ Untracked
    \/ DoIndex /\ Untracked
    \/ DoIndexMut /\ Untracked

NextUse ==
    \/ DoAllocate /\ Untracked
    \/ DoDeallocate /\ Untracked
    \/ DoSet /\ Untracked

\* A client that passes to deallocate only handles it got from allocate,
\* each at most once.
NextDisciplined ==
    \/ DoAllocate /\ held' = held \cup {last'.ret}
    \/ DoDeallocate /\ last'.index \in held /\ held' = held \ {last'.index}
    \/ DoIsLive /\ UNCHANGED held

Next == NextAllocator \/ NextArena

\* One Allocator used alone.
SpecAllocator == Init /\ [][NextAllocator]_vars

\* One Arena used alone, keyed by Index values from elsewhere.
SpecArena == Init /\ [][NextArena]_vars

\* An Allocator and an Arena changed together: the calls that write.
SpecUse == Init /\ [][NextUse]_vars

\* One Allocator used by a disciplined client.
SpecDisciplined == Init /\ [][NextDisciplined]_vars

\* Every operation of both.
Spec == Init /\ [][Next]_vars

(***************************************************************************)
(* Vocabulary of the properties                                            *)
(***************************************************************************)
\* The liveness flag of a slot number, read off the entries directly.
Flag(value) == value < Len(entries) /\ entries[value + 1].is_live

\* The generation the Allocator stores for a slot number it has issued.
StoredGeneration(value) == entries[value + 1].generation

\* h2 was issued for h's slot after h: the slot was recycled in between.
Reuses(h, h2) == h2.value = h.value /\ h.generation < h2.generation

\* An issued handle whose slot the Allocator has since recycled.
Stale(h) ==
    /\ h \in issued
    /\ h.generation < StoredGeneration(h.value)

\* The number of times a slot number occurs in a free-list.
Occurrences(f, value) == Cardinality({k \in 1..Len(f) : f[k] = value})

(***************************************************************************)
(* Allocator properties (SpecAllocator)                                    *)
(***************************************************************************)
\* C1: whatever allocate and deallocate calls were made before (deallocate
\* with stale, foreign or already deallocated handles included), the handle
\* an allocate call returns differs, in slot or in generation, from every
\* handle returned by an earlier allocate call.
C1_HandlesDistinct ==
    [][last'.op = "allocate" => last'.ret \notin issued]_vars

\* C1 witness: every handle of the bounds has been issued, each slot having
\* been recycled MaxGen times, and a deallocate with a stale handle took
\* effect last.
C1_Witness ==
    /\ issued = Indexes
    /\ last.op = "deallocate"
    /\ last.live
    /\ Stale(last.index)

\* C3: when deallocate(h), h a handle allocate returned, is followed by an
\* allocate that returns a handle h2 on h's slot, h2 has another generation
\* than h and is not equal to h.
C3_ReuseChangesGeneration ==
    [][(/\ last.op = "deallocate"
        /\ last.index \in issued
        /\ last'.op = "allocate"
        /\ last'.ret.value = last.index.value)
       => (/\ last'.ret.generation # last.index.generation
           /\ last'.ret # last.index)]_vars

\* C3 witness: allocate has just returned a handle for a recycled slot, an
\* older handle of which was issued before.
C3_Witness ==
    /\ last.op = "allocate"
    /\ last.ret.generation > 0
    /\ \E h \in issued : Reuses(h, last.ret)

\* C7: deallocate(D) with a stale handle D, while the slot's current handle E
\* is live, marks the slot dead and pushes it on the free-list: is_live(E) is
\* false afterwards and the next allocate returns E's slot.
C7_StaleDeallocateRecycles ==
    [][\A D \in issued, E \in issued :
         (/\ last'.op = "deallocate"
          /\ last'.index = D
          /\ Reuses(D, E)
          /\ E.generation = StoredGeneration(E.value)
          /\ IsLive(allocator, E))
         => (/\ ~IsLive(allocator', E)
             /\ ~entries'[E.value + 1].is_live
             /\ free' = Append(free, E.value)
             /\ Allocate(allocator').ret.value = E.value)]_vars

\* C7 witness: a deallocate with a stale handle has just taken effect on a
\* slot whose current handle was issued and not deallocated.
C7_Witness ==
    /\ last.op = "deallocate"
    /\ last.live
    /\ Stale(last.index)
    /\ ~Flag(last.index.value)
    /\ free[Len(free)] = last.index.value

\* C8: the first handle issued for a slot number has generation 0; an
\* allocate that recycles a slot returns the slot's stored generation plus
\* one and stores it; no call changes the stored generation of another slot
\* and deallocate and is_live change none: the k-th handle issued for a slot
\* has generation k - 1.
C8_GenerationsCount ==
    [][/\ last'.op = "allocate" =>
            LET r == last'.ret
            IN  /\ r.generation =
                       IF r.value < Len(entries)
                       THEN StoredGeneration(r.value) + 1
                       ELSE 0
                /\ entries'[r.value + 1].generation = r.generation
                /\ r.generation =
                       Cardinality({h \in issued : h.value = r.value})
                /\ \A i \in 1..Len(entries) :
                       i # r.value + 1 =>
                           entries'[i].generation = entries[i].generation
       /\ last'.op \in {"deallocate", "is_live"} =>
            /\ Len(entries') = Len(entries)
            /\ \A i \in 1..Len(entries) :
                   entries'[i].generation = entries[i].generation]_vars

\* C8 witness: a slot has been recycled up to generation MaxGen while the
\* other slot is still in its first generation.
C8_Witness ==
    /\ last.op = "allocate"
    /\ last.ret.generation = MaxGen
    /\ \E i \in 1..Len(entries) :
           i # last.ret.value + 1 /\ entries[i].generation = 0

\* C9: deallocate on a slot that is not live (dead, or never allocated)
\* returns the allocator unchanged; on a live slot it only clears the flag
\* and pushes the slot number, which then occurs once in the free-list; a
\* second deallocate with the same handle changes nothing more.
C9_DeallocateOnce ==
    \A index \in Indexes :
        LET a == Deallocate(allocator, index)
        IN  /\ ~Flag(index.value) => a = allocator
            /\ Flag(index.value) =>
                   /\ a.entries = [entries EXCEPT ![index.value + 1] =
                                      [is_live |-> FALSE,
                                       generation |-> StoredGeneration(index.value)]]
                   /\ a.free = Append(free, index.value)
                   /\ Occurrences(a.free, index.value) = 1
            /\ Deallocate(a, index) = a

\* C9 witness: a handle has been deallocated twice in a row, the second call
\* finding the slot dead, while another slot number has never been allocated.
C9_Witness ==
    /\ last.op = "deallocate"
    /\ ~last.live
    /\ last.index \in issued
    /\ free[Len(free)] = last.index.value
    /\ Len(entries) < MaxSlots

\* C10: is_live(index) returns the liveness flag of slot index.value, false
\* for a slot number never allocated, and leaves the allocator as it was;
\* the generation is not compared: for a stale handle whose slot is live
\* again it returns true.
C10_IsLiveIsTheFlag ==
    [][last'.op = "is_live" =>
         /\ last'.ret = Flag(last'.index.value)
         /\ last'.index.value >= Len(entries) => last'.ret = FALSE
         /\ (Stale(last'.index) /\ Flag(last'.index.value)) => last'.ret = TRUE
         /\ entries' = entries
         /\ free' = free]_vars

\* C10 witness: is_live has just returned true for a stale handle.
C10_Witness ==
    /\ last.op = "is_live"
    /\ Stale(last.index)
    /\ last.ret = TRUE

\* C11: allocate takes the free-list as a stack. With a non-empty free-list
\* it pops the slot pushed last (the one the latest effective deallocate
\* freed), adds one to its generation, marks it live and returns it; the
\* popped slot number is an existing entry, so the call cannot fail. With an
\* empty free-list it appends the entry (live, generation 0) and returns its
\* position, the number of entries before the call. No call shortens the
\* entries.
C11_AllocateIsAStack ==
    [][/\ Len(entries') >= Len(entries)
       /\ Len(free) > 0 => free[Len(free)] < Len(entries)
       /\ last'.op = "allocate" =>
            LET r == last'.ret
            IN  IF Len(free) > 0
                THEN /\ r.value = free[Len(free)]
                     /\ free' = SubSeq(free, 1, Len(free) - 1)
                     /\ r.generation = StoredGeneration(r.value) + 1
                     /\ entries' = [entries EXCEPT ![r.value + 1] =
                                       [is_live |-> TRUE,
                                        generation |-> r.generation]]
                ELSE /\ r = IndexNew(Len(entries), 0)
                     /\ entries' = Append(entries,
                                       [is_live |-> TRUE, generation |-> 0])
                     /\ free' = free
       /\ (last.op = "deallocate" /\ last.live /\ last'.op = "allocate")
            => last'.ret.value = last.index.value]_vars

\* C11 witness: with every slot on the free-list, allocate has just recycled
\* one of them and the other is still free.
C11_Witness ==
    /\ last.op = "allocate"
    /\ last.ret.generation > 0
    /\ Len(entries) = MaxSlots
    /\ Len(free) = MaxSlots - 1

(***************************************************************************)
(* Arena properties (SpecArena, SpecUse)                                   *)
(***************************************************************************)
\* The Arena slot of a handle holds an entry tagged with its generation.
HoldsGeneration(vals, h) ==
    /\ h.value < Len(vals)
    /\ IsSome(vals[h.value + 1])
    /\ Unwrap(vals[h.value + 1]).generation = h.generation

C4_AbsentPermanently ==
    \A h \in issued, h2 \in issued :
        (Reuses(h, h2) /\ h2 \in assigned) => ArenaGet(values, h) = None

\* C4 amended: once the slot of h has been recycled for h2 and set(h2, v)
\* has been called, get(h) is None, and it stays None across every call
\* except a set with the old handle h.
C4_AbsentUntilSetWithOldHandle ==
    [][\A h \in issued', h2 \in issued' :
         (/\ Reuses(h, h2)
          /\ h2 \in assigned'
          /\ (h2 \in assigned => ArenaGet(values, h) = None)
          /\ ~(last'.op = "set" /\ last'.index = h))
         => ArenaGet(values', h) = None]_vars

\* C4 witness: the slot of h was recycled for h2 and assigned with h2,
\* get(h) is None, and a later deallocate(h2) has taken effect.
C4_Witness ==
    \E h \in issued, h2 \in assigned :
        /\ Reuses(h, h2)
        /\ ArenaGet(values, h) = None
        /\ IsSome(ArenaGet(values, h2))
        /\ last.op = "deallocate"
        /\ last.index = h2
        /\ last.live

\* C5 as stated: a handle h2 issued for a recycled slot gets None from the
\* Arena, whatever the Arena held, as long as set has not been called with
\* h2 since.
C5_AbsentWhateverWasStored ==
    \A h2 \in issued :
        (h2.generation > 0 /\ h2 \notin assigned)
            => ArenaGet(values, h2) = None

\* C5 amended: when allocate recycles a slot and returns h2, get(h2) is None
\* unless the Arena slot already holds an entry tagged with h2.generation
\* (stored through an equal handle from elsewhere), whatever else it holds;
\* and while get(h2) is None it stays None across every call except a set
\* with h2.
C5_AbsentUnlessSameGenerationStored ==
    [][\A h2 \in issued' :
         (/\ h2.generation > 0
          /\ IF h2 \in issued
             THEN ArenaGet(values, h2) = None
             ELSE ~HoldsGeneration(values, h2)
          /\ ~(last'.op = "set" /\ last'.index = h2))
         => ArenaGet(values', h2) = None]_vars

\* C5 witness: allocate has just recycled a slot whose Arena entry, stored
\* under the previous handle, is still in place, and get(h2) is None.
C5_Witness ==
    /\ last.op = "allocate"
    /\ last.ret.generation > 0
    /\ last.ret.value < Len(values)
    /\ IsSome(values[last.ret.value + 1])
    /\ \E h \in assigned : Reuses(h, last.ret) /\ IsSome(ArenaGet(values, h))
    /\ ArenaGet(values, last.ret) = None

\* C6 as stated: as soon as allocate advances the Allocator's generation for
\* the slot past h.generation, get(h) is None.
C6_UnreachableOnceRecycled ==
    [][\A h \in issued :
         (last'.op = "allocate" /\ Reuses(h, last'.ret))
            => ArenaGet(values', h) = None]_vars

\* C6 amended: allocate and deallocate leave the result of get(h) as it was,
\* so an entry stored under h is still returned by get(h) after the slot was
\* recycled; it becomes unreachable when a set with a handle of the same
\* slot and another generation overwrites it.
C6_ReachableUntilOverwritten ==
    [][\A h \in issued :
         /\ last'.op \in {"allocate", "deallocate"}
                => ArenaGet(values', h) = ArenaGet(values, h)
         /\ (/\ last'.op = "set"
             /\ last'.index.value = h.value
             /\ last'.index.generation # h.generation)
                => ArenaGet(values', h) = None]_vars

\* C6 witness: the slot of h has just been recycled by allocate and get(h)
\* still returns the entry stored under h.
C6_Witness ==
    /\ last.op = "allocate"
    /\ \E h \in assigned :
           /\ Reuses(h, last.ret)
           /\ h.generation < StoredGeneration(h.value)
           /\ IsSome(ArenaGet(values, h))

\* The larger of two numbers.
Max(a, b) == IF a >= b THEN a ELSE b

\* A slot number is within the backing storage and holds an entry.
Occupied(vals, value) == value < Len(vals) /\ IsSome(vals[value + 1])

\* C12: set(index, value) on any reachable Arena leaves the entry
\* (value, index.generation) at slot index.value, whatever the slot held
\* (nothing, an older or a newer generation); get(index) then returns
\* value, and a second set(index, value) leaves the Arena as the first left
\* it.
C12_SetOverwrites ==
    /\ \A index \in Indexes, elem \in Elems :
           LET v == ArenaSet(values, index, elem)
           IN  /\ v[index.value + 1] =
                      Some([value |-> elem, generation |-> index.generation])
               /\ ArenaGet(v, index) = Some(elem)
               /\ ArenaSet(v, index, elem) = v
               /\ ArenaGet(ArenaSet(v, index, elem), index) = Some(elem)
    /\ last.op = "set" =>
           ArenaGet(values, last.index) =
               Some(Unwrap(stored[last.index.value]).elem)

\* C12 witness: set has just stored an entry of generation MaxGen in a full
\* Arena, so that a set with a handle of generation 0 at that slot meets a
\* newer stored generation.
C12_Witness ==
    /\ last.op = "set"
    /\ last.index.generation = MaxGen
    /\ Len(values) = MaxSlots
    /\ \A s \in Slots : Occupied(values, s)

\* C13: a new Arena has len 0; no call decreases len; set(index, _) makes
\* it max(len, index.value + 1); get, get_mut, len, is_empty and indexing
\* leave the Arena as it was; len returns the length of the storage and
\* is_empty returns len = 0.
C13_LenIsHighWaterMark ==
    /\ ArenaLen(values) = 0
    /\ [][/\ ArenaLen(values') >= ArenaLen(values)
          /\ last'.op = "set" =>
                 ArenaLen(values') =
                     Max(ArenaLen(values), last'.index.value + 1)
          /\ last'.op \in {"get", "get_mut", "len", "is_empty",
                           "index", "index_mut"} => values' = values
          /\ last'.op = "len" => last'.ret = Len(values)
          /\ last'.op = "is_empty" => last'.ret = (Len(values) = 0)]_vars

\* C13 witness: len has just returned MaxSlots for an Arena whose first
\* slot is empty: more than the number of occupied slots.
C13_Witness ==
    /\ last.op = "len"
    /\ last.ret = MaxSlots
    /\ ~Occupied(values, 0)

\* C14: arena[index] and its mutable variant return the value get(index)
\* returns when there is one, and panic exactly when get(index) is None:
\* for a slot out of range, an empty slot or a generation other than the
\* stored one. Neither changes the Arena.
C14_IndexIsGetOrPanic ==
    [][last'.op \in {"index", "index_mut"} =>
         LET got == ArenaGet(values, last'.index)
         IN  /\ IsSome(got) => last'.ret = [panicked |-> FALSE, value |-> got]
             /\ last'.ret.panicked <=> got = None
             /\ last'.ret.panicked <=> ~HoldsGeneration(values, last'.index)
             /\ values' = values]_vars

\* C14 witness: arena[index] has just panicked for a handle whose slot is
\* occupied by an entry of another generation.
C14_Witness ==
    /\ last.op = "index"
    /\ last.ret.panicked
    /\ Occupied(values, last.index.value)

LiveSlots == {i \in 1..Len(entries) : entries[i].is_live}

\* C17: the free-list holds exactly the dead slots, each once: its elements
\* are existing slots marked dead, no two are equal, every dead slot is
\* among them, live slots plus free-list length make the number of entries,
\* and the slot allocate would return is not marked live.
C17_FreeListIsTheDeadSlots ==
    /\ \A k \in 1..Len(free) :
           free[k] < Len(entries) /\ ~entries[free[k] + 1].is_live
    /\ \A j \in 1..Len(free), k \in 1..Len(free) :
           j # k => free[j] # free[k]
    /\ \A i \in 1..Len(entries) :
           ~entries[i].is_live => \E k \in 1..Len(free) : free[k] = i - 1
    /\ Cardinality(LiveSlots) + Len(free) = Len(entries)
    /\ ~Flag(Allocate(allocator).ret.value)

\* C17 witness: every slot is on the free-list, the last one put there by a
\* deallocate with a stale handle.
C17_Witness ==
    /\ Len(free) = MaxSlots
    /\ last.op = "deallocate"
    /\ last.live
    /\ Stale(last.index)
    /\ last.index.generation = 0
    /\ StoredGeneration(last.index.value) = MaxGen

\* C18: when deallocate is only called with handles allocate returned, each
\* at most once, every handle allocated and not yet deallocated is live and
\* carries its slot's stored generation, no two of them share a slot, and
\* every deallocate call found its slot live under the handle's own
\* generation: none recycled the slot of another handle.
C18_DisciplinedHandlesAreCurrent ==
    /\ \A h \in held :
           /\ IsLive(allocator, h)
           /\ h.generation = StoredGeneration(h.value)
           /\ \A h2 \in held : h2.value = h.value => h2 = h
    /\ last.op = "deallocate" =>
           /\ last.live
           /\ last.index.generation = StoredGeneration(last.index.value)

\* C18 witness: the client holds a handle for every slot, one of them of
\* generation MaxGen, after each earlier handle was deallocated once.
C18_Witness ==
    /\ last.op = "allocate"
    /\ Cardinality(held) = MaxSlots
    /\ \E h \in held : h.generation = MaxGen
    /\ Cardinality(issued) > MaxSlots + 1

\* The operations of Allocator and the operations of Arena, as recorded in
\* last.op.
AllocatorOps == {"allocate", "deallocate", "is_live"}
ArenaOps == {"set", "get", "get_mut", "len", "is_empty", "index", "index_mut"}

\* C19: set(index, _) changes slot index.value only: no slot disappears,
\* the other slots that existed keep what they held, the other slots growth creates are empty,
\* and get(h) is unchanged for every handle of another slot; no Arena
\* operation changes the Allocator and no Allocator operation changes the
\* Arena.
C19_SetTouchesOneSlot ==
    [][/\ last'.op = "set" =>
            LET i == last'.index.value
            IN  /\ Len(values') >= Len(values)
                /\ \A k \in 1..Len(values) :
                       k # i + 1 => values'[k] = values[k]
                /\ \A k \in (Len(values) + 1)..Len(values') :
                       k # i + 1 => values'[k] = None
                /\ \A h \in Indexes :
                       h.value # i =>
                           ArenaGet(values', h) = ArenaGet(values, h)
       /\ last'.op \in ArenaOps => entries' = entries /\ free' = free
       /\ last'.op \in AllocatorOps => values' = values]_vars

\* C19 witness: a set at slot 1 grew the Arena past slot 0, which is empty,
\* while the Allocator has issued handles.
C19_Witness ==
    /\ last.op = "set"
    /\ last.index.value = 1
    /\ Len(values) = MaxSlots
    /\ values[1] = None
    /\ Cardinality(issued) > 1

TypeOK ==
    /\ entries \in Seq([is_live : BOOLEAN, generation : 0..MaxGen])
    /\ Len(entries) <= MaxSlots
    /\ issued \subseteq Indexes
    /\ assigned \subseteq issued
    /\ last.op \in {"new", "allocate", "deallocate", "is_live",
                    "set", "get", "get_mut", "len", "is_empty",
                    "index", "index_mut"}
    /\ held \subseteq issued
====
